---------------------------- MODULE Spec2Model ----------------------------
(***************************************************************************)
(* A model of the grading run of jutge-driver-circuits: judge.py's judge0  *)
(* and its stages, verifier.py's equivalence stage and cvutil.py's bounded *)
(* process runner.  One run of the judge on one submission is one          *)
(* behaviour; what the external tools do (how long they run, their exit    *)
(* status, what they leave on their streams) is chosen by the environment. *)
(***************************************************************************)
EXTENDS Integers, Sequences, FiniteSets, TLC

VARIABLES
    pc,          \* position of the run inside __main__ / judge0
    veredict,    \* inf.cor['veredict'] ("unset" before inf.cor exists)
    trace_files, \* inf.cor['trace_files']
    statistics,  \* inf.cor['statistics']
    c,           \* judge0's local c: the last stage's return value
    exc,         \* the exception in flight, "none" if there is none
    disk,        \* correction/correction.yml as last written
    cwd,         \* the process's working directory
    tracesDir,   \* whether <run>/correction/traces/ exists
    svgs,        \* number of .svg files in <run>/correction/traces/
    jsons,       \* number of .json files in <run>/correction/traces/
    eqyScript,   \* whether <run>/driver/yosys/<module>.eqy exists
    events,      \* what the run has done so far, in order
    obs,         \* what the external tools did in this run
    exitCode,    \* the process's exit code, -1 while it runs
    proc,        \* one call of cvutil.execute_with_timeout, step by step
    ifaces,      \* cvutil.Interface objects and their serialized texts
    traits,      \* one call of cvutil.detect_circuit_traits
    wave,        \* one call of verifier.generate_json_from_vcd, line by line
    clean        \* one call of verifier.generate_clean_vcd, line by line

(* the variables of one grading run *)
pipeline == <<pc, veredict, trace_files, statistics, c, exc, disk, cwd,
              tracesDir, svgs, jsons, eqyScript, events, obs, exitCode>>

(* the variables of the library calls studied on their own *)
others == <<proc, ifaces, traits, wave, clean>>

vars == <<pc, veredict, trace_files, statistics, c, exc, disk, cwd, tracesDir,
          svgs, jsons, eqyScript, events, obs, exitCode, proc, ifaces, traits,
          wave, clean>>

-----------------------------------------------------------------------------
(* Bounds of the model *)

MaxReportLines == 2
MaxVcd == 2

(* Program constants *)

DEFAULT_MAX_SYNTHESIS_TIME == 20
VERIFIER_TIMEOUT == 300
PollsPerSecond == 5

-----------------------------------------------------------------------------
(* Exceptions: Python's class hierarchy, as far as the handlers of the run *)
(* distinguish it.  cvutil.TimeoutException derives from Exception, not    *)
(* from the builtin TimeoutError.                                          *)

ExcClasses == {"TimeoutException", "SubmissionException", "SetterException",
               "TimeoutError", "FileNotFoundError", "IOError", "IndexError",
               "Exception"}

Parent(cls) ==
    CASE cls = "TimeoutException"    -> "Exception"
      [] cls = "SubmissionException" -> "Exception"
      [] cls = "SetterException"     -> "Exception"
      [] cls = "IndexError"          -> "Exception"
      [] cls = "TimeoutError"        -> "IOError"
      [] cls = "FileNotFoundError"   -> "IOError"
      [] cls = "IOError"             -> "Exception"
      [] OTHER                       -> "BaseException"

RECURSIVE IsInstance(_, _)
IsInstance(cls, handler) ==
    IF cls = handler THEN TRUE
    ELSE IF cls = "BaseException" THEN FALSE
    ELSE IsInstance(Parent(cls), handler)

-----------------------------------------------------------------------------
(* The bounded process runner, cvutil.execute_with_timeout.  Time is       *)
(* counted in polls of 0.2 s; the process terminates at poll time `end'    *)
(* with exit status rc.                                                    *)

(* For the two timeouts the run uses, 20 s and 300 s, the additions of    *)
(* 0.2 to c bring it to the timeout exactly (see Accumulate below), and    *)
(* the polls of the loop `while c <= timeout' are those at counts 0..limit; *)
(* the call returns at the first of them that finds the process terminated *)
(* and, when none does, kills the process and raises TimeoutException.     *)
Poll(limit, end, rc) ==
    LET Terminated(k) == end <= k
    IN  IF \E k \in 0..limit : Terminated(k)
        THEN LET first == CHOOSE k \in 0..limit :
                              Terminated(k) /\ (k = 0 \/ ~Terminated(k - 1))
             IN  [timedOut |-> FALSE, rc |-> rc, polls |-> first + 1,
                  killed |-> FALSE]
        ELSE [timedOut |-> TRUE, rc |-> -1, polls |-> limit + 1, killed |-> TRUE]

ExecuteWithTimeout(timeout, end, rc) ==
    Poll(timeout * PollsPerSecond, end, rc)

EndsFor(timeout) ==
    {0, timeout * PollsPerSecond, timeout * PollsPerSecond + 1}

ExitStatuses == {0, 1}

(* What a call of the runner can come to, over the environment's choices *)
RunnerOutcomes(timeout) ==
    {ExecuteWithTimeout(timeout, end, rc) :
        end \in EndsFor(timeout), rc \in ExitStatuses}


-----------------------------------------------------------------------------
(* Port names are sequences of characters, so that a prefix test and a     *)
(* slice are computed.  An interface's ports are a function from the port  *)
(* names it holds to their direction and width (Interface.ports: Port.name *)
(* is always the key).                                                     *)

CLK_PORT_NAME == <<"c", "l", "k">>
RST_PORT_NAME == <<"r", "s", "t">>
DONTCARE_PORT_NAME == <<"_", "D", "o", "n", "t", "C", "a", "r", "e">>
DONTCARE_PREFIX == <<"_", "D", "o", "n", "t", "C", "a", "r", "e", "_">>

(* str.startswith *)
StartsWith(s, prefix) ==
    /\ Len(s) >= Len(prefix)
    /\ SubSeq(s, 1, Len(prefix)) = prefix

(* s[n:] *)
SliceFrom(s, n) == SubSeq(s, n + 1, Len(s))

(* mutant: no width counts as a bus *)
IsBus_Never(width) == width < 1

(* the tests `width != 1' of detect_circuit_traits *)
IsBus(width) == width # 1

(* cvutil.detect_circuit_traits, lines 243-283: exc is the exception it    *)
(* raises ("none" when it returns), the other fields are the Traits it     *)
(* returns.  Which of several violations is reported depends on the order  *)
(* of the tests; whether one is reported does not.                         *)
DetectCircuitTraits(ports) ==
    LET In(n) == n \in DOMAIN ports
        sequentialError ==
            /\ In(CLK_PORT_NAME) \/ In(RST_PORT_NAME)
            /\ \/ In(CLK_PORT_NAME) # In(RST_PORT_NAME)
               \/ ports[CLK_PORT_NAME].dir # "input"
               \/ ports[RST_PORT_NAME].dir # "input"
               \/ IsBus(ports[CLK_PORT_NAME].width)
               \/ IsBus(ports[RST_PORT_NAME].width)
        dontCareError ==
            /\ In(DONTCARE_PORT_NAME)
            /\ \/ ports[DONTCARE_PORT_NAME].dir # "output"
               \/ IsBus(ports[DONTCARE_PORT_NAME].width)
        prefixed == {n \in DOMAIN ports : StartsWith(n, DONTCARE_PREFIX)}
        Referenced(n) == SliceFrom(n, Len(DONTCARE_PREFIX))
        dontCaresError ==
            \E n \in prefixed :
                \/ ports[n].dir # "output"
                \/ IsBus(ports[n].width)
                \/ ~In(Referenced(n))
                \/ ports[Referenced(n)].dir # "output"
    IN  IF sequentialError \/ dontCareError \/ dontCaresError
        THEN [exc |-> "Exception", sequential |-> FALSE, dont_care |-> FALSE,
              dont_cares |-> {}]
        ELSE [exc |-> "none",
              sequential |-> In(CLK_PORT_NAME) \/ In(RST_PORT_NAME),
              dont_care |-> In(DONTCARE_PORT_NAME),
              dont_cares |-> {Referenced(n) : n \in prefixed}]

-----------------------------------------------------------------------------
(* Paths recorded in trace_files.  A path is <<stem, number, extension>>:  *)
(* Path("correction/interface.diff") is that very file, TracePath(2,       *)
(* ".svg") is correction/trace2.svg.                                       *)

Path(name) == <<name, 0, "">>

TracePath(i, ext) == <<"correction/trace", i, ext>>

NoObs == [solRun |-> "none", synthRun |-> "none", synthRc |-> -1,
          synthErr |-> "none", parserRun |-> "none", diffStatus |-> -1,
          eqyRun |-> "none", eqyReport |-> <<>>, eqyResult |-> "none",
          vcdFound |-> 0, vcdParsed |-> 0, refTraits |-> "none",
          raisedIn |-> "none", verdictAtRaise |-> "none"]

(* obs once a stage has left the exception e with the verdict v in memory *)
Raised(o, stage, e, v) ==
    IF e = "none" THEN o
    ELSE [o EXCEPT !.raisedIn = stage, !.verdictAtRaise = v]

NoRecord == [veredict |-> "absent", trace_files |-> <<>>]

(* os.chdir on the two relative paths the run uses *)
ChdirCorrection(d) == IF d = "run" THEN "correction" ELSE "missing"

ChdirParent(d) == IF d = "correction" THEN "run" ELSE "parent"

(* a library call that is not being made *)
NoCall == [pc |-> "idle"]

Init ==
    /\ pc = "start"
    /\ veredict = "unset"
    /\ trace_files = <<>>
    /\ statistics = "unset"
    /\ c = FALSE
    /\ exc = "none"
    /\ disk = NoRecord
    /\ cwd = "run"
    /\ tracesDir \in BOOLEAN
    /\ svgs = 0
    /\ jsons = 0
    /\ eqyScript = FALSE
    /\ events = <<>>
    /\ obs = NoObs
    /\ exitCode = -1
    /\ proc = NoCall
    /\ ifaces = NoCall
    /\ traits = NoCall
    /\ wave = NoCall
    /\ clean = NoCall

-----------------------------------------------------------------------------
(* judge0, lines 17-25: the directory structure and the defensive write *)

DummyRecord == [veredict |-> "IE", trace_files |-> <<>>]

Start ==
    /\ pc = "start"
    /\ UNCHANGED others
    /\ disk' = DummyRecord
    /\ events' = Append(events, "write:dummy")
    /\ pc' = "load"
    /\ UNCHANGED <<veredict, trace_files, statistics, c, exc, cwd, tracesDir,
                   svgs, jsons, eqyScript, obs, exitCode>>

(* cvutil.parse_solution_interface_and_synth: the exception it leaves, or  *)
(* "none".  Its handler names the builtin TimeoutError.                    *)
ParseSolutionInterfaceAndSynth(r, solOk) ==
        IF r.timedOut
        THEN IF IsInstance("TimeoutException", "TimeoutError")
             THEN [exc |-> "none", iface |-> "False"]
             ELSE [exc |-> "TimeoutException", iface |-> "unset"]
        ELSE IF ~solOk
             THEN [exc |-> "SetterException", iface |-> "unset"]
             ELSE [exc |-> "none", iface |-> "loaded"]

(* judge0, lines 27-57: reading the configuration and the reference        *)
(* interface, then creating inf.cor.  An exception here leaves judge0      *)
(* before the staged pipeline's try block is entered.                      *)
LoadOutcome(hdlOk, r, solOk, subOk) ==
    IF ~hdlOk
    THEN [exc |-> "FileNotFoundError", launched |-> FALSE, solRun |-> "none",
          loaded |-> FALSE]
    ELSE LET p == ParseSolutionInterfaceAndSynth(r, solOk)
             run == IF r.timedOut THEN "timeout" ELSE "exited"
         IN  IF p.exc # "none"
             THEN [exc |-> p.exc, launched |-> TRUE, solRun |-> run,
                   loaded |-> FALSE]
             ELSE IF ~subOk
                  THEN [exc |-> "FileNotFoundError", launched |-> TRUE,
                        solRun |-> run, loaded |-> TRUE]
                  ELSE [exc |-> "none", launched |-> TRUE, solRun |-> run,
                        loaded |-> TRUE]

(* The reference interfaces parse_verilog can hand to judge0: clk and rst, *)
(* each absent or an input of some width (ports whose name contains        *)
(* '_DontCare' are dropped by parse_verilog).                              *)
MaxRefWidth == 2

ReferenceInterfaces ==
    UNION {[D -> [dir : {"input"}, width : 1..MaxRefWidth]] :
              D \in SUBSET {CLK_PORT_NAME, RST_PORT_NAME}}

(* what detect_circuit_traits would say of the interface *)
TraitsOf(ports) ==
    IF DetectCircuitTraits(ports).exc = "none" THEN "valid" ELSE "violated"

Load ==
    /\ pc = "load"
    /\ UNCHANGED others
    /\ \E hdlOk \in BOOLEAN, r \in RunnerOutcomes(DEFAULT_MAX_SYNTHESIS_TIME),
          solOk \in BOOLEAN, subOk \in BOOLEAN, ref \in ReferenceInterfaces :
         LET o == LoadOutcome(hdlOk, r, solOk, subOk)
         IN  /\ exc' = o.exc
             /\ events' = IF o.launched
                          THEN Append(events, "launch:yosys_solution")
                          ELSE events
             /\ obs' = [obs EXCEPT !.solRun = o.solRun,
                                   !.refTraits = IF o.loaded THEN TraitsOf(ref)
                                                 ELSE "none"]
             /\ IF o.exc = "none"
                THEN /\ veredict' = "IE"
                     /\ trace_files' = <<>>
                     /\ statistics' = "empty"
                     /\ pc' = "synthesis"
                ELSE /\ UNCHANGED <<veredict, trace_files, statistics>>
                     /\ pc' = "main"
    /\ UNCHANGED <<c, disk, cwd, tracesDir, svgs, jsons, eqyScript, exitCode>>

-----------------------------------------------------------------------------
(* judge.synthesis, lines 107-128 *)

(* mutant: the test of the error stream inverted *)
SynthesisVerdict_Inverted(ok, v) == IF ok THEN "CE" ELSE v

SynthesisVerdict(ok, v) == IF ~ok THEN "CE" ELSE v

Synthesis(r, errEmpty, v) ==
        IF r.timedOut
        THEN IF IsInstance("TimeoutException", "TimeoutError")
             THEN [exc |-> "none", ret |-> FALSE, veredict |-> v, run |-> "timeout"]
             ELSE [exc |-> "TimeoutException", ret |-> FALSE, veredict |-> v,
                   run |-> "timeout"]
        ELSE [exc |-> "none", ret |-> errEmpty,
              veredict |-> SynthesisVerdict(errEmpty, v), run |-> "exited"]

DoSynthesis ==
    /\ pc = "synthesis"
    /\ UNCHANGED others
    /\ \E r \in RunnerOutcomes(DEFAULT_MAX_SYNTHESIS_TIME), errEmpty \in BOOLEAN :
         LET s == Synthesis(r, errEmpty, veredict)
         IN  /\ exc' = s.exc
             /\ c' = s.ret
             /\ veredict' = s.veredict
             /\ obs' = Raised([obs EXCEPT
                          !.synthRun = s.run,
                          !.synthRc = r.rc,
                          !.synthErr = IF s.run = "exited"
                                       THEN (IF errEmpty THEN "empty" ELSE "nonempty")
                                       ELSE "none"],
                          "synthesis", s.exc, s.veredict)
             /\ events' = events \o <<"start:synthesis", "launch:yosys_synthesis">>
                                 \o (IF s.run = "timeout" THEN <<"kill">> ELSE <<>>)
             /\ pc' = IF s.exc # "none" THEN "except" ELSE "write1"
    /\ UNCHANGED <<trace_files, statistics, disk, cwd, tracesDir, svgs, jsons,
                   eqyScript, exitCode>>

(* judge0, lines 60-63: the record is written once synthesis has returned *)
RecordOf(v, tf) == [veredict |-> v, trace_files |-> tf]

WriteAfterSynthesis ==
    /\ pc = "write1"
    /\ UNCHANGED others
    /\ disk' = RecordOf(veredict, trace_files)
    /\ events' = Append(events, "write:synthesis")
    /\ pc' = IF c THEN "interface" ELSE "synthfail"
    /\ UNCHANGED <<veredict, trace_files, statistics, c, exc, cwd, tracesDir,
                   svgs, jsons, eqyScript, obs, exitCode>>

(* mutant: the synthesis-error artifact is not recorded *)
SynthesisArtifacts_None(tf) == tf

(* judge0, lines 86-90 *)
SynthesisArtifacts(tf) == Append(tf, Path("correction/compilation1.txt"))

SynthesisFailed ==
    /\ pc = "synthfail"
    /\ UNCHANGED others
    /\ trace_files' = SynthesisArtifacts(trace_files)
    /\ pc' = "finally"
    /\ UNCHANGED <<veredict, statistics, c, exc, disk, cwd, tracesDir, svgs,
                   jsons, eqyScript, events, obs, exitCode>>

-----------------------------------------------------------------------------
(* cvutil.parse_submission_interface, lines 208-231: the exception it      *)
(* leaves, or "none" (interface() ignores its return value).               *)

ParseSubmissionInterface(r, topFound) ==
        IF r.timedOut
        THEN IF IsInstance("TimeoutException", "TimeoutError")
             THEN [exc |-> "none", run |-> "timeout"]
             ELSE [exc |-> "TimeoutException", run |-> "timeout"]
        ELSE IF ~topFound
             THEN [exc |-> "SubmissionException", run |-> "exited"]
             ELSE [exc |-> "none", run |-> "exited"]

DiffStatuses == {0, 1, 2}

(* mutant: only a malfunctioning diff stops the run *)
InterfaceResult_Lenient(r, v) ==
    IF r = 0 \/ r = 1
    THEN [exc |-> "none", ret |-> TRUE, veredict |-> v]
    ELSE [exc |-> "FileNotFoundError", ret |-> FALSE, veredict |-> v]

(* judge.interface, lines 139-148: what the diff's exit status r decides.  *)
(* For any other status the message is read from 'interface.txt', which is *)
(* not where the diff was written (correction/interface.txt).              *)
InterfaceResult(r, v) ==
    IF r = 0
    THEN [exc |-> "none", ret |-> TRUE, veredict |-> v]
    ELSE IF r = 1
         THEN [exc |-> "none", ret |-> FALSE, veredict |-> "CE"]
         ELSE [exc |-> "FileNotFoundError", ret |-> FALSE, veredict |-> v]

(* judge.interface, lines 131-150 *)
Interface(run, topFound, r, v) ==
    LET p == ParseSubmissionInterface(run, topFound)
        d == InterfaceResult(r, v)
    IN  IF p.exc # "none"
        THEN [exc |-> p.exc, ret |-> FALSE, veredict |-> v, run |-> p.run,
              diffed |-> FALSE]
        ELSE [exc |-> d.exc, ret |-> d.ret, veredict |-> d.veredict,
              run |-> p.run, diffed |-> TRUE]

DoInterface ==
    /\ pc = "interface"
    /\ UNCHANGED others
    /\ \E run \in RunnerOutcomes(DEFAULT_MAX_SYNTHESIS_TIME),
          topFound \in BOOLEAN, r \in DiffStatuses :
         LET i == Interface(run, topFound, r, veredict)
         IN  /\ exc' = i.exc
             /\ c' = i.ret
             /\ veredict' = i.veredict
             /\ obs' = Raised([obs EXCEPT
                                  !.parserRun = i.run,
                                  !.diffStatus = IF i.diffed THEN r ELSE -1],
                              "interface", i.exc, i.veredict)
             /\ events' = events \o <<"start:interface", "launch:yosys_parser">>
                                 \o (IF i.run = "timeout" THEN <<"kill">> ELSE <<>>)
                                 \o (IF i.diffed THEN <<"launch:diff">> ELSE <<>>)
             /\ pc' = IF i.exc # "none" THEN "except"
                      ELSE IF i.ret THEN "verification" ELSE "ifacefail"
    /\ UNCHANGED <<trace_files, statistics, disk, cwd, tracesDir, svgs, jsons,
                   eqyScript, exitCode>>

(* judge0, lines 75-80 *)
InterfaceArtifacts(tf) == Append(tf, Path("correction/interface.diff"))

InterfaceFailed ==
    /\ pc = "ifacefail"
    /\ UNCHANGED others
    /\ trace_files' = InterfaceArtifacts(trace_files)
    /\ pc' = "cleanup"
    /\ UNCHANGED <<veredict, statistics, c, exc, disk, cwd, tracesDir, svgs,
                   jsons, eqyScript, events, obs, exitCode>>

-----------------------------------------------------------------------------
(* verifier.execute_verifier, lines 49-55: the scan of the report.  A line *)
(* is "succ" if it holds "Successfully proved designs equivalent", "fail"  *)
(* if it holds "Failed to prove equivalence" (and not the former), "other" *)
(* otherwise.  The result is Python's True, False or None.                 *)

ReportLines == {"succ", "fail", "other"}

RECURSIVE SeqsUpTo(_, _)
SeqsUpTo(S, n) ==
    IF n = 0 THEN {<<>>}
    ELSE LET shorter == SeqsUpTo(S, n - 1)
         IN  shorter \cup {Append(q, x) : q \in shorter, x \in S}

Reports == SeqsUpTo(ReportLines, MaxReportLines)

(* mutant: the scan stops at the first deciding line *)
RECURSIVE ScanReport_FirstWins(_, _)
ScanReport_FirstWins(report, r) ==
    IF report = <<>> THEN r
    ELSE IF Head(report) = "succ" THEN "True"
    ELSE IF Head(report) = "fail" THEN "False"
    ELSE ScanReport_FirstWins(Tail(report), r)

(* mutant: a line with neither phrase forgets what was decided *)
LineResult_Reset(line, r) ==
    IF line = "succ" THEN "True"
    ELSE IF line = "fail" THEN "False"
    ELSE "None"

(* execute_verifier, lines 52-55: r after one line of the report *)
LineResult(line, r) ==
    IF line = "succ" THEN "True"
    ELSE IF line = "fail" THEN "False"
    ELSE r

RECURSIVE ScanReport(_, _)
ScanReport(report, r) ==
    IF report = <<>> THEN r
    ELSE ScanReport(Tail(report), LineResult(Head(report), r))

(* verifier.execute_verifier, lines 35-58 *)
ExecuteVerifier(r, report, d) ==
    LET inside == ChdirCorrection(d)
    IN  IF r.timedOut
        THEN [exc |-> "TimeoutException", ret |-> "None", cwd |-> inside,
              run |-> "timeout"]
        ELSE [exc |-> "none", ret |-> ScanReport(report, "None"),
              cwd |-> ChdirParent(inside), run |-> "exited"]

(* verifier.parse_results, lines 61-96, on n counterexample waveforms.     *)
(* generate_clean_vcd is called outside any try block and raises (an       *)
(* IndexError) on a path without 'strategies/'; a failure of               *)
(* generate_json_from_vcd is caught and ends the loop. parsed counts the   *)
(* waveforms the loop body was entered for.                                *)
ParseResultsOutcomes ==
    [n : 0..MaxVcd, clean : BOOLEAN, svg : BOOLEAN, json : BOOLEAN]

ParseResults(pr) ==
    IF pr.n = 0
    THEN [exc |-> "none", svgs |-> 0, jsons |-> 0, parsed |-> 0]
    ELSE IF ~pr.clean
         THEN [exc |-> "IndexError", svgs |-> 0, jsons |-> 0, parsed |-> 1]
         ELSE IF ~pr.json
              THEN [exc |-> "none", svgs |-> IF pr.svg THEN 1 ELSE 0, jsons |-> 0,
                    parsed |-> 1]
              ELSE [exc |-> "none", svgs |-> IF pr.svg THEN pr.n ELSE 0,
                    jsons |-> pr.n, parsed |-> pr.n]

(* mutant: only a report that says failed is a wrong answer *)
EquivalenceVerdict_NotFalse(r) == IF r # "False" THEN "AC" ELSE "WA"

(* judge.verification, lines 167-176: the verdict for execute_verifier's r *)
EquivalenceVerdict(r) == IF r = "True" THEN "AC" ELSE "WA"

(* judge.verification, lines 153-184, with prepare_verifier (verifier.py   *)
(* lines 22-32), which fails when the template script cannot be opened.    *)
Verification(tmplOk, r, report, pr, v, d) ==
    IF ~tmplOk
    THEN [exc |-> "FileNotFoundError", ret |-> FALSE, veredict |-> v, cwd |-> d,
          script |-> FALSE, run |-> "none", result |-> "none",
          traces |-> FALSE, svgs |-> 0, jsons |-> 0,
                        found |-> 0, parsed |-> 0]
    ELSE LET e == ExecuteVerifier(r, report, d)
             p == ParseResults(pr)
         IN  IF e.exc # "none"
             THEN IF IsInstance(e.exc, "TimeoutException")
                  THEN [exc |-> "none", ret |-> FALSE, veredict |-> "EE",
                        cwd |-> e.cwd, script |-> TRUE, run |-> e.run,
                        result |-> "none", traces |-> FALSE, svgs |-> 0, jsons |-> 0,
                        found |-> 0, parsed |-> 0]
                  ELSE [exc |-> e.exc, ret |-> FALSE, veredict |-> v,
                        cwd |-> e.cwd, script |-> TRUE, run |-> e.run,
                        result |-> "none", traces |-> FALSE, svgs |-> 0, jsons |-> 0,
                        found |-> 0, parsed |-> 0]
             ELSE IF EquivalenceVerdict(e.ret) = "AC"
                  THEN [exc |-> "none", ret |-> TRUE, veredict |-> "AC",
                        cwd |-> e.cwd, script |-> TRUE, run |-> e.run,
                        result |-> e.ret, traces |-> FALSE, svgs |-> 0, jsons |-> 0,
                        found |-> 0, parsed |-> 0]
                  ELSE [exc |-> p.exc, ret |-> FALSE,
                        veredict |-> EquivalenceVerdict(e.ret),
                        cwd |-> e.cwd, script |-> TRUE, run |-> e.run,
                        result |-> e.ret, traces |-> TRUE, svgs |-> p.svgs,
                        jsons |-> p.jsons, found |-> pr.n, parsed |-> p.parsed]

(* mutant: statistics are collected only for an accepted submission *)
AfterVerification_OnlyIfAccepted(e, ret) ==
    IF e # "none" THEN "except"
    ELSE IF ret THEN "statistics" ELSE "traces"

(* judge0, lines 67-68: collect_statistcs() follows verification() when it *)
(* returns; an exception it raises goes to the outer handler               *)
AfterVerification(e, ret) == IF e # "none" THEN "except" ELSE "statistics"

DoVerification ==
    /\ pc = "verification"
    /\ UNCHANGED others
    /\ \E tmplOk \in BOOLEAN, r \in RunnerOutcomes(VERIFIER_TIMEOUT),
          report \in Reports, pr \in ParseResultsOutcomes :
         LET w == Verification(tmplOk, r, report, pr, veredict, cwd)
         IN  /\ exc' = w.exc
             /\ c' = w.ret
             /\ veredict' = w.veredict
             /\ cwd' = w.cwd
             /\ eqyScript' = (eqyScript \/ w.script)
             /\ tracesDir' = (tracesDir \/ w.traces)
             /\ svgs' = svgs + w.svgs
             /\ jsons' = jsons + w.jsons
             /\ obs' = Raised([obs EXCEPT
                          !.eqyRun = w.run,
                          !.eqyReport = IF w.run = "exited" THEN report ELSE <<>>,
                          !.eqyResult = w.result,
                          !.vcdFound = w.found, !.vcdParsed = w.parsed],
                          "verification", w.exc, w.veredict)
             /\ events' = events \o <<"start:verification">>
                                 \o (IF w.run # "none" THEN <<"launch:eqy">> ELSE <<>>)
                                 \o (IF w.run = "timeout" THEN <<"kill">> ELSE <<>>)
             /\ pc' = AfterVerification(w.exc, w.ret)
    /\ UNCHANGED <<trace_files, statistics, disk, exitCode>>

-----------------------------------------------------------------------------
(* cvutil.get_submission_stats: the totals scraped from the synthesis      *)
(* report.                                                                 *)
GetSubmissionStats == "collected"

(* judge.collect_statistcs, lines 186-195 *)
CollectStatistics ==
    /\ pc = "statistics"
    /\ UNCHANGED others
    /\ statistics' = GetSubmissionStats
    /\ events' = Append(events, "start:statistics")
    /\ pc' = IF ~c THEN "traces" ELSE "cleanup"
    /\ UNCHANGED <<veredict, trace_files, c, exc, disk, cwd, tracesDir, svgs,
                   jsons, eqyScript, obs, exitCode>>

(* os.listdir('correction/traces/'), a path relative to the working        *)
(* directory                                                               *)
ListTraces(d, dirExists) == d = "run" /\ dirExists

RECURSIVE TracePaths(_, _, _)
TracePaths(i, n, ext) ==
    IF i > n THEN <<>> ELSE <<TracePath(i, ext)>> \o TracePaths(i + 1, n, ext)

(* util.move_file(src, dst): the file leaves correction/traces/ *)
MoveFile(count) == count - count

(* judge.move_trace_files, lines 211-235 *)
MoveTraceFiles(tf, d, dirExists, nsvg, njson) ==
    IF ~ListTraces(d, dirExists)
    THEN [exc |-> "FileNotFoundError", trace_files |-> tf, svgs |-> nsvg,
          jsons |-> njson]
    ELSE [exc |-> "none",
          trace_files |-> tf \o TracePaths(1, nsvg, ".svg")
                             \o TracePaths(1, njson, ".json"),
          svgs |-> MoveFile(nsvg), jsons |-> MoveFile(njson)]

DoMoveTraceFiles ==
    /\ pc = "traces"
    /\ UNCHANGED others
    /\ LET m == MoveTraceFiles(trace_files, cwd, tracesDir, svgs, jsons)
       IN  /\ exc' = m.exc
           /\ trace_files' = m.trace_files
           /\ svgs' = m.svgs
           /\ jsons' = m.jsons
           /\ obs' = Raised(obs, "move_trace_files", m.exc, veredict)
           /\ pc' = IF m.exc # "none" THEN "except" ELSE "cleanup"
    /\ events' = Append(events, "start:move_trace_files")
    /\ UNCHANGED <<veredict, statistics, c, disk, cwd, tracesDir, eqyScript,
                   exitCode>>

(* judge.cleanup, lines 237-247: util.del_file on a path relative to the   *)
(* working directory; a failing removal is swallowed                       *)
DelFile(d, exists) == IF d = "run" THEN FALSE ELSE exists

Cleanup ==
    /\ pc = "cleanup"
    /\ UNCHANGED others
    /\ eqyScript' = DelFile(cwd, eqyScript)
    /\ events' = Append(events, "cleanup")
    /\ pc' = "finally"
    /\ UNCHANGED <<veredict, trace_files, statistics, c, exc, disk, cwd,
                   tracesDir, svgs, jsons, obs, exitCode>>

-----------------------------------------------------------------------------
(* mutant: the handler leaves the verdict as the stages set it *)
HandlerVerdict_Keep(v) == v

(* judge0, lines 92-97: the pipeline's outer handler *)
HandlerVerdict(v) == "IE"

Except ==
    /\ pc = "except"
    /\ UNCHANGED others
    /\ veredict' = HandlerVerdict(veredict)
    /\ events' = Append(events, "handler")
    /\ pc' = "finally"
    /\ UNCHANGED <<trace_files, statistics, c, exc, disk, cwd, tracesDir, svgs,
                   jsons, eqyScript, obs, exitCode>>

(* util.copy_file('submission/program.v', 'correction/program.v'), both    *)
(* relative to the working directory                                       *)
CopySubmission(d, e) == IF d = "run" THEN e ELSE "FileNotFoundError"

(* mutant: the finalizer writes the record without its trace files *)
FinalRecord_NoTraces(v, tf) == RecordOf(v, <<>>)

(* judge0, lines 98-104: the finalizer *)
FinalRecord(v, tf) == RecordOf(v, tf)

Finally ==
    /\ pc = "finally"
    /\ UNCHANGED others
    /\ disk' = FinalRecord(veredict, trace_files)
    /\ events' = Append(events, "write:final")
    /\ exc' = CopySubmission(cwd, exc)
    /\ pc' = "main"
    /\ UNCHANGED <<veredict, trace_files, statistics, c, cwd, tracesDir, svgs,
                   jsons, eqyScript, obs, exitCode>>

(* judge.py, lines 265-274: the process's exit code *)
ExitCodeFor(e) == IF e # "none" THEN 1 ELSE 0

Main ==
    /\ pc = "main"
    /\ UNCHANGED others
    /\ exitCode' = ExitCodeFor(exc)
    /\ pc' = "exited"
    /\ UNCHANGED <<veredict, trace_files, statistics, c, exc, disk, cwd,
                   tracesDir, svgs, jsons, eqyScript, events, obs>>

Next ==
    \/ Start
    \/ Load
    \/ DoSynthesis
    \/ WriteAfterSynthesis
    \/ SynthesisFailed
    \/ DoInterface
    \/ InterfaceFailed
    \/ DoVerification
    \/ CollectStatistics
    \/ DoMoveTraceFiles
    \/ Cleanup
    \/ Except
    \/ Finally
    \/ Main

Spec == Init /\ [][Next]_vars

-----------------------------------------------------------------------------
(* The library calls below are studied outside a grading run: the run's    *)
(* variables stay as they are before judge0 is entered.                    *)

NoRun ==
    /\ pc = "idle"
    /\ veredict = "unset"
    /\ trace_files = <<>>
    /\ statistics = "unset"
    /\ c = FALSE
    /\ exc = "none"
    /\ disk = NoRecord
    /\ cwd = "run"
    /\ tracesDir = FALSE
    /\ svgs = 0
    /\ jsons = 0
    /\ eqyScript = FALSE
    /\ events = <<>>
    /\ obs = NoObs
    /\ exitCode = -1

-----------------------------------------------------------------------------
(* cvutil.execute_with_timeout, lines 336-358, step by step.               *)
(*                                                                         *)
(* The loop variable c is a double that grows by the double 0.2, which is  *)
(* (2^54 + 1) / (5 * 2^54).  A value of c is held exactly as <<k, e>>,     *)
(* standing for k/5 + e/(5 * 2^54): k additions, and the error e that the  *)
(* roundings to 53 significant bits have accumulated.  Time is counted in  *)
(* ticks, TicksPerPoll of them in the 0.2 s of one time.sleep; the         *)
(* process terminates at tick `end'.                                       *)

MaxRunnerTimeout == 4
TicksPerPoll == 2
FractionBits == 54

RECURSIVE Pow2(_)
Pow2(n) == IF n = 0 THEN 1 ELSE 2 * Pow2(n - 1)

(* 2^n mod 5 *)
Pow2Mod5(n) == <<1, 2, 4, 3>>[(n % 4) + 1]

(* whether k/5 + e/(5 * 2^54) >= n/5 *)
AtLeast(k, e, n) == k > n \/ (k = n /\ e >= 0)

(* s such that the doubles around the value <<k, e>> are 2^s / 2^54 apart: *)
(* 0 in [0.25, 0.5), 1 in [0.5, 1), 2 in [1, 2), ...; -1 below 0.25, where *)
(* every value of the loop is a double already                             *)
RECURSIVE UlpShiftFrom(_, _, _)
UlpShiftFrom(k, e, s) ==
    IF AtLeast(k, e, 5 * Pow2(s - 1)) THEN UlpShiftFrom(k, e, s + 1) ELSE s

UlpShift(k, e) ==
    IF k >= 3 THEN UlpShiftFrom(k, e, 1) ELSE IF k >= 2 THEN 0 ELSE -1

(* round-to-nearest, ties to even, of the exact value <<k, e>>: the error  *)
(* of the nearest double.  In units of 1/(5 * 2^54) the doubles are the    *)
(* multiples of m = 5 * 2^s, and 2^54 mod m is 2^s * (2^(54 - s) mod 5).   *)
RoundToDouble(k, e) ==
    LET s == UlpShift(k, e)
        m == 5 * Pow2(s)
        r == (k * Pow2(s) * Pow2Mod5(FractionBits - s) + e) % m
        downIsEven ==
            (k * Pow2(s + 1) * Pow2Mod5(FractionBits - s - 1) + e - r) % (2 * m) = 0
    IN  IF s < 0 \/ r = 0 THEN e
        ELSE IF 2 * r < m THEN e - r
        ELSE IF 2 * r > m THEN e + (m - r)
        ELSE IF downIsEven THEN e - r ELSE e + (m - r)

(* c += 0.2 *)
Accumulate(cc) == <<cc[1] + 1, RoundToDouble(cc[1] + 1, cc[2] + 1)>>

(* c <= timeout, for an integer timeout *)
LeTimeout(cc, timeout) ==
    \/ cc[1] < PollsPerSecond * timeout
    \/ cc[1] = PollsPerSecond * timeout /\ cc[2] <= 0

(* mutant: the loop condition made strict *)
LoopContinues_Strict(cc, timeout) == cc[1] < PollsPerSecond * timeout

(* the condition of `while c <= timeout' *)
LoopContinues(cc, timeout) == LeTimeout(cc, timeout)

(* proc.poll() is not None *)
Terminated == proc.end <= proc.now

InitRunner ==
    /\ NoRun
    /\ ifaces = NoCall
    /\ traits = NoCall
    /\ wave = NoCall
    /\ clean = NoCall
    /\ \E timeout \in 1..MaxRunnerTimeout, rc \in ExitStatuses :
         \E end \in 0..((PollsPerSecond * timeout + 2) * TicksPerPoll) :
            proc = [pc |-> "call", timeout |-> timeout, end |-> end, rc |-> rc,
                    c |-> <<0, 0>>, now |-> 0, polls |-> 0, launches |-> 0,
                    killed |-> FALSE, result |-> [exc |-> "none", rc |-> -1]]

(* subprocess.Popen and c = 0 *)
Launch ==
    /\ proc.pc = "call"
    /\ proc' = [proc EXCEPT !.pc = "loop", !.launches = @ + 1, !.c = <<0, 0>>]
    /\ UNCHANGED pipeline
    /\ UNCHANGED <<ifaces, traits, wave, clean>>

(* the poll finds the process terminated: return proc.returncode *)
PollReturn ==
    /\ proc.pc = "loop"
    /\ LoopContinues(proc.c, proc.timeout)
    /\ Terminated
    /\ proc' = [proc EXCEPT !.pc = "returned", !.polls = @ + 1,
                            !.result = [exc |-> "none", rc |-> proc.rc]]
    /\ UNCHANGED pipeline
    /\ UNCHANGED <<ifaces, traits, wave, clean>>

(* the poll finds it running: time.sleep(0.2); c += 0.2 *)
PollSleep ==
    /\ proc.pc = "loop"
    /\ LoopContinues(proc.c, proc.timeout)
    /\ ~Terminated
    /\ proc' = [proc EXCEPT !.polls = @ + 1, !.now = @ + TicksPerPoll,
                            !.c = Accumulate(@)]
    /\ UNCHANGED pipeline
    /\ UNCHANGED <<ifaces, traits, wave, clean>>

(* the loop is left: proc.kill(); raise TimeoutException *)
Kill ==
    /\ proc.pc = "loop"
    /\ ~LoopContinues(proc.c, proc.timeout)
    /\ proc' = [proc EXCEPT !.pc = "raised", !.killed = TRUE,
                            !.result = [exc |-> "TimeoutException", rc |-> -1]]
    /\ UNCHANGED pipeline
    /\ UNCHANGED <<ifaces, traits, wave, clean>>

NextRunner ==
    \/ Launch
    \/ PollReturn
    \/ PollSleep
    \/ Kill

(* the call is one thread of control: it keeps taking its next step *)
SpecRunner == InitRunner /\ [][NextRunner]_vars /\ WF_vars(NextRunner)

-----------------------------------------------------------------------------
(* cvutil.Interface and cvutil.write_interface.  A Port object is a record *)
(* whose id stands for the object's identity: two Port objects made by two *)
(* calls of add_port are different objects even with equal attributes.     *)

MaxAdds == 2
MaxIfaceWidth == 2

IfaceNames == {<<"a">>, <<"b">>}

(* the characters of the model's port names, in code point order *)
Chars == <<"C", "D", "_", "a", "b", "c", "e", "k", "l", "n", "o", "r", "s",
           "t", "x">>

Ord(ch) == CHOOSE i \in 1..Len(Chars) : Chars[i] = ch

(* Python's < on str *)
RECURSIVE StrLess(_, _)
StrLess(s, t) ==
    IF s = <<>> THEN t # <<>>
    ELSE IF t = <<>> THEN FALSE
    ELSE IF Head(s) # Head(t) THEN Ord(Head(s)) < Ord(Head(t))
    ELSE StrLess(Tail(s), Tail(t))

(* sorted(ports, key=operator.attrgetter('name')): a stable sort *)
RECURSIVE InsertByName(_, _)
InsertByName(p, sorted) ==
    IF sorted = <<>> THEN <<p>>
    ELSE IF StrLess(p.name, Head(sorted).name) THEN <<p>> \o sorted
    ELSE <<Head(sorted)>> \o InsertByName(p, Tail(sorted))

RECURSIVE SortedByName(_)
SortedByName(seq) ==
    IF seq = <<>> THEN <<>>
    ELSE InsertByName(seq[Len(seq)], SortedByName(SubSeq(seq, 1, Len(seq) - 1)))

NoPorts == [n \in {} |-> NoCall]

(* Interface.__init__, lines 69-76, without ports *)
NewInterface(name) ==
    [name |-> name, ports |-> NoPorts, inputs |-> <<>>, outputs |-> <<>>,
     made |-> 0]

(* Interface.add_port, lines 85-91 *)
AddPort(i, name, dir, width) ==
    LET p == [id |-> i.made + 1, name |-> name, dir |-> dir, width |-> width]
    IN  [i EXCEPT
           !.inputs = IF dir = "input" THEN Append(@, p) ELSE @,
           !.outputs = IF dir = "output" THEN Append(@, p) ELSE @,
           !.ports = [n \in DOMAIN @ \cup {name} |->
                         IF n = name THEN p ELSE @[n]],
           !.made = @ + 1]

(* list.remove: the first element that is p goes *)
RECURSIVE RemoveFirst(_, _)
RemoveFirst(seq, p) ==
    IF seq = <<>> THEN <<>>
    ELSE IF Head(seq) = p THEN Tail(seq)
    ELSE <<Head(seq)>> \o RemoveFirst(Tail(seq), p)

(* Interface.del_port, lines 93-99, for a name held in ports *)
DelPort(i, name) ==
    LET p == i.ports[name]
    IN  [i EXCEPT
           !.inputs = IF p.dir = "input" THEN RemoveFirst(@, p) ELSE @,
           !.outputs = IF p.dir = "output" THEN RemoveFirst(@, p) ELSE @,
           !.ports = [n \in DOMAIN @ \ {name} |-> @[n]]]

(* the line '\t%s [%d] %s;' of a port *)
PortLine(p) == [dir |-> p.dir, width |-> p.width, name |-> p.name]

RECURSIVE PortLines(_)
PortLines(seq) ==
    IF seq = <<>> THEN <<>> ELSE <<PortLine(Head(seq))>> \o PortLines(Tail(seq))

(* cvutil.write_interface, lines 160-174: the text written *)
WriteInterface(i) ==
    [header |-> i.name,
     lines |-> PortLines(SortedByName(i.inputs))
               \o PortLines(SortedByName(i.outputs))]

NoText == [header |-> <<>>, lines |-> <<>>]

ModuleName == <<"m">>

InitInterface ==
    /\ NoRun
    /\ proc = NoCall
    /\ traits = NoCall
    /\ wave = NoCall
    /\ clean = NoCall
    /\ ifaces = [pc |-> "build",
                 A |-> NewInterface(ModuleName), B |-> NewInterface(ModuleName),
                 text |-> [A |-> NoText, B |-> NoText]]

AddPortCall ==
    /\ ifaces.pc = "build"
    /\ \E k \in {"A", "B"}, name \in IfaceNames, dir \in {"input", "output"},
          width \in 1..MaxIfaceWidth :
         /\ ifaces.text[k] = NoText
         /\ ifaces[k].made < MaxAdds
         /\ ifaces' = [ifaces EXCEPT ![k] = AddPort(@, name, dir, width)]
    /\ UNCHANGED pipeline
    /\ UNCHANGED <<proc, traits, wave, clean>>

(* del_port of a name that is not held raises KeyError and changes nothing *)
DelPortCall ==
    /\ ifaces.pc = "build"
    /\ \E k \in {"A", "B"} :
         /\ ifaces.text[k] = NoText
         /\ \E name \in DOMAIN ifaces[k].ports :
               ifaces' = [ifaces EXCEPT ![k] = DelPort(@, name)]
    /\ UNCHANGED pipeline
    /\ UNCHANGED <<proc, traits, wave, clean>>

WriteInterfaceCall ==
    /\ ifaces.pc = "build"
    /\ \E k \in {"A", "B"} :
         /\ ifaces.text[k] = NoText
         /\ ifaces' = [ifaces EXCEPT !.text[k] = WriteInterface(ifaces[k])]
    /\ UNCHANGED pipeline
    /\ UNCHANGED <<proc, traits, wave, clean>>

NextInterface ==
    \/ AddPortCall
    \/ DelPortCall
    \/ WriteInterfaceCall

SpecInterface == InitInterface /\ [][NextInterface]_vars

-----------------------------------------------------------------------------
(* cvutil.detect_circuit_traits on every interface over a few port names   *)

MaxWidth == 2

Directions == {"input", "output"}

PortAttrs == [dir : Directions, width : 1..MaxWidth]

SignalX == <<"x">>

TraitNames == {CLK_PORT_NAME, RST_PORT_NAME, DONTCARE_PORT_NAME,
               DONTCARE_PREFIX \o SignalX, SignalX}

TraitInterfaces == UNION {[D -> PortAttrs] : D \in SUBSET TraitNames}

InitTraits ==
    /\ NoRun
    /\ proc = NoCall
    /\ ifaces = NoCall
    /\ wave = NoCall
    /\ clean = NoCall
    /\ traits \in {[pc |-> "call", ports |-> p, result |-> NoCall] :
                       p \in TraitInterfaces}

DetectCircuitTraitsCall ==
    /\ traits.pc = "call"
    /\ traits' = [traits EXCEPT !.pc = "done",
                                !.result = DetectCircuitTraits(traits.ports)]
    /\ UNCHANGED pipeline
    /\ UNCHANGED <<proc, ifaces, wave, clean>>

NextTraits == DetectCircuitTraitsCall

SpecTraits == InitTraits /\ [][NextTraits]_vars

-----------------------------------------------------------------------------
(* verifier.generate_json_from_vcd, one line of the waveform per step       *)

MaxTimestamps == 3

\* Python dicts keep insertion order: a dict is a sequence of [k, v] entries
\* with distinct keys.
Keys(d) == {d[i].k : i \in DOMAIN d}

Get(d, k) == d[CHOOSE i \in DOMAIN d : d[i].k = k].v

DictSet(d, k, v) ==
    IF k \in Keys(d)
    THEN [i \in DOMAIN d |-> IF d[i].k = k THEN [k |-> k, v |-> v] ELSE d[i]]
    ELSE Append(d, [k |-> k, v |-> v])

InList(x, list) == \E i \in DOMAIN list : list[i] = x

\* The waveforms read: wire ids are declared once each, in this order; a
\* module scope is not opened inside a scope of the same name, and every
\* scope opened is closed before the end of the definitions; literals are
\* binary digits, most significant first.
WireIds == <<"n1", "n2">>

WireNames == {"a", "clk", "y"}

ScopeNames == {"gold", "gate", "top"}

Literals == {<<0>>, <<1, 0>>}

WireIdSet == {WireIds[i] : i \in DOMAIN WireIds}

RECURSIVE BinToInt(_)
BinToInt(bits) ==
    IF bits = <<>> THEN 0
    ELSE 2 * BinToInt(SubSeq(bits, 1, Len(bits) - 1)) + bits[Len(bits)]

NoLine == [kind |-> "none"]

NewWaveform(input_names, output_names) ==
    [pc                |-> "definitions",
     input_names       |-> input_names,
     output_names      |-> output_names,
     current_module    |-> <<>>,
     input_wires       |-> <<>>,
     output_gold_wires |-> <<>>,
     output_gate_wires |-> <<>>,
     signal_values     |-> <<>>,
     timestamps        |-> <<>>,
     result            |-> NoCall,
     exc               |-> "none",
     \* history of the input: the last line of the definitions read, the
     \* value of the last change record read for each declared wire (-1 if
     \* none), and that value as it was when each timestamp marker was read
     line              |-> NoLine,
     last              |-> [w \in WireIdSet |-> -1],
     atMarker          |-> [w \in WireIdSet |-> <<>>]]

Top(stack) == stack[Len(stack)]

BindInput(w, wire_number, wire_name) ==
    IF w.current_module # <<>> /\ Top(w.current_module) \in {"gold", "gate"}
       /\ InList(wire_name, w.input_names)
    THEN DictSet(w.input_wires, wire_number, wire_name)
    ELSE w.input_wires

BindOutput_AnyScope(w, wire_number, wire_name, scope, wires) ==
    IF w.current_module # <<>> /\ InList(scope, w.current_module)
       /\ ~InList(wire_name, w.input_names)
       /\ InList(wire_name, w.output_names)
    THEN DictSet(wires, wire_number, wire_name)
    ELSE wires

BindOutput(w, wire_number, wire_name, scope, wires) ==
    IF w.current_module # <<>> /\ Top(w.current_module) = scope
       /\ ~InList(wire_name, w.input_names)
       /\ InList(wire_name, w.output_names)
    THEN DictSet(wires, wire_number, wire_name)
    ELSE wires

Carry_Sentinel(values) == -1

Carry(values) == IF values # <<>> THEN values[Len(values)] ELSE -1

ExtendAll(signal_values, count) ==
    [i \in DOMAIN signal_values |->
        IF Len(signal_values[i].v) < count
        THEN [signal_values[i] EXCEPT !.v = Append(@, Carry(@))]
        ELSE signal_values[i]]

SetLast(values, value) ==
    IF values # <<>> THEN [values EXCEPT ![Len(values)] = value]
    ELSE Append(values, value)

Update(signal_values, wire_number, value) ==
    IF wire_number \in Keys(signal_values)
    THEN DictSet(signal_values, wire_number,
                 SetLast(Get(signal_values, wire_number), value))
    ELSE signal_values

Trim_None(values) == values

Trim(values) == SubSeq(values, 1, Len(values) - 1)

RECURSIVE ValuesByName(_, _, _)
ValuesByName(wires, signal_values, acc) ==
    IF wires = <<>> THEN acc
    ELSE ValuesByName(Tail(wires), signal_values,
             IF Head(wires).k \in Keys(signal_values)
             THEN DictSet(acc, Head(wires).v,
                          Trim(Get(signal_values, Head(wires).k)))
             ELSE acc)

Collapse_Last(values) == values[Len(values)]

Collapse(values) == values[1]

CollapseAll(d) == [i \in DOMAIN d |-> [k |-> d[i].k, v |-> Collapse(d[i].v)]]

CanCollapse(d) == \A i \in DOMAIN d : Len(d[i].v) > 0

Differs(entry, gate) ==
    entry.k \notin Keys(gate) \/ entry.v # Get(gate, entry.k)

DifferingSignals(gold, gate) ==
    LET differing == SelectSeq(gold, LAMBDA e : Differs(e, gate))
    IN  [i \in DOMAIN differing |-> differing[i].k]

GenerateJson(w) ==
    LET input_values == ValuesByName(w.input_wires, w.signal_values, <<>>)
        output_gold_values ==
            ValuesByName(w.output_gold_wires, w.signal_values, <<>>)
        output_gate_values ==
            ValuesByName(w.output_gate_wires, w.signal_values, <<>>)
    IN  IF "clk" \in Keys(input_values)
        THEN [exc |-> "none",
              data |-> [type     |-> "sequential",
                        input    |-> input_values,
                        output   |-> output_gate_values,
                        expected |-> output_gold_values,
                        errors   |-> DifferingSignals(output_gold_values,
                                                      output_gate_values)]]
        ELSE IF CanCollapse(input_values) /\ CanCollapse(output_gold_values)
                /\ CanCollapse(output_gate_values)
        THEN [exc |-> "none",
              data |-> [type     |-> "combinational",
                        input    |-> CollapseAll(input_values),
                        output   |-> CollapseAll(output_gate_values),
                        expected |-> CollapseAll(output_gold_values),
                        errors   |->
                            DifferingSignals(CollapseAll(output_gold_values),
                                             CollapseAll(output_gate_values))]]
        ELSE [exc |-> "IndexError", data |-> NoCall]

InitWaveform ==
    /\ NoRun
    /\ proc = NoCall
    /\ ifaces = NoCall
    /\ traits = NoCall
    /\ clean = NoCall
    /\ wave \in {NewWaveform(inputs, <<"y">>) :
                     inputs \in {<<"a">>, <<"a", "clk">>}}

ReadScope(m) ==
    /\ wave.pc = "definitions"
    /\ ~InList(m, wave.current_module)
    /\ wave' = [wave EXCEPT !.current_module = Append(@, m),
                            !.line = [kind |-> "scope", module |-> m]]
    /\ UNCHANGED pipeline
    /\ UNCHANGED <<proc, ifaces, traits, clean>>

ReadUpscope ==
    /\ wave.pc = "definitions"
    /\ wave' = [wave EXCEPT
                   !.current_module =
                       IF @ # <<>> THEN SubSeq(@, 1, Len(@) - 1) ELSE @,
                   !.line = [kind |-> "upscope"]]
    /\ UNCHANGED pipeline
    /\ UNCHANGED <<proc, ifaces, traits, clean>>

ReadVar(wire_number, wire_name) ==
    /\ wave.pc = "definitions"
    /\ Len(wave.signal_values) < Len(WireIds)
    /\ wire_number = WireIds[Len(wave.signal_values) + 1]
    /\ wave' = [wave EXCEPT
                   !.input_wires = BindInput(wave, wire_number, wire_name),
                   !.output_gold_wires =
                       BindOutput(wave, wire_number, wire_name, "gold", @),
                   !.output_gate_wires =
                       BindOutput(wave, wire_number, wire_name, "gate", @),
                   !.signal_values = DictSet(@, wire_number, <<>>),
                   !.line = [kind |-> "var", id |-> wire_number,
                             name |-> wire_name]]
    /\ UNCHANGED pipeline
    /\ UNCHANGED <<proc, ifaces, traits, clean>>

ReadEndDefinitions ==
    /\ wave.pc = "definitions"
    /\ wave.current_module = <<>>
    /\ wave' = [wave EXCEPT !.pc = "changes",
                            !.line = [kind |-> "enddefinitions"]]
    /\ UNCHANGED pipeline
    /\ UNCHANGED <<proc, ifaces, traits, clean>>

ReadTimestamp ==
    /\ wave.pc = "changes"
    /\ Len(wave.timestamps) < MaxTimestamps
    /\ wave' = [wave EXCEPT
                   !.timestamps = Append(@, Len(@)),
                   !.signal_values = ExtendAll(@, Len(wave.timestamps) + 1),
                   !.atMarker = [w \in WireIdSet |->
                                    Append(wave.atMarker[w], wave.last[w])]]
    /\ UNCHANGED pipeline
    /\ UNCHANGED <<proc, ifaces, traits, clean>>

ReadChange(literal, wire_number) ==
    /\ wave.pc = "changes"
    /\ wave' = [wave EXCEPT
                   !.signal_values = Update(@, wire_number, BinToInt(literal)),
                   !.last[wire_number] =
                       IF wire_number \in Keys(wave.signal_values)
                       THEN BinToInt(literal) ELSE @]
    /\ UNCHANGED pipeline
    /\ UNCHANGED <<proc, ifaces, traits, clean>>

EndOfFile ==
    /\ wave.pc \in {"definitions", "changes"}
    /\ LET r == GenerateJson(wave)
       IN  wave' = [wave EXCEPT
                       !.pc = IF r.exc = "none" THEN "returned" ELSE "raised",
                       !.result = r.data,
                       !.exc = r.exc]
    /\ UNCHANGED pipeline
    /\ UNCHANGED <<proc, ifaces, traits, clean>>

NextWaveform ==
    \/ \E m \in ScopeNames : ReadScope(m)
    \/ ReadUpscope
    \/ \E id \in WireIdSet, name \in WireNames : ReadVar(id, name)
    \/ ReadEndDefinitions
    \/ ReadTimestamp
    \/ \E literal \in Literals, id \in WireIdSet : ReadChange(literal, id)
    \/ EndOfFile

SpecWaveform == InitWaveform /\ [][NextWaveform]_vars

-----------------------------------------------------------------------------
(* verifier.generate_clean_vcd, one line of the waveform per step           *)

MaxCleanLines == 5

\* A line of the waveform: its kind, the wire id and the wire or module
\* name it carries (names are sequences of characters).
VcdLine(kind, id, name) == [kind |-> kind, id |-> id, name |-> name]

TimescaleLine == VcdLine("timescale", "", <<>>)

UpscopeLine == VcdLine("upscope", "", <<>>)

EndDefinitionsLine == VcdLine("enddefinitions", "", <<>>)

TimestampLine == VcdLine("timestamp", "", <<>>)

Gold == <<"g", "o", "l", "d">>

Gate == <<"g", "a", "t", "e">>

Okay == <<"o", "k", "a", "y">>

Timescale == <<"t", "i", "m", "e", "s", "c", "a", "l", "e">>

InternalPrefix == <<"_", "_">>

CleanScopes == {Gold, Gate, <<"t", "o", "p">>}

CleanNames == {Okay, <<"y">>, InternalPrefix \o <<"x">>,
               DONTCARE_PREFIX \o <<"y">>, Timescale}

\* `sub in s' for strings
Contains(s, sub) ==
    \E i \in 1..(Len(s) - Len(sub) + 1) :
        SubSeq(s, i, i + Len(sub) - 1) = sub

\* "timescale" in line: of the lines read, the timescale line and a
\* declaration whose wire name holds the word
HasTimescale(line) ==
    line.kind = "timescale" \/ Contains(line.name, Timescale)

NewClean ==
    [pc              |-> "definitions",
     wires_to_remove |-> <<"t">>,
     filtered_lines  |-> <<>>,
     current_module  |-> <<>>,
     \* history of the input: the lines read, and for every declaration
     \* read the innermost scope open at that point (<<>> for none)
     lines           |-> <<>>,
     scopes          |-> <<>>]

RemovedWire(stack, wire_name) ==
    \/ stack = <<>>
    \/ StartsWith(wire_name, InternalPrefix)
    \/ StartsWith(wire_name, DONTCARE_PREFIX)
    \/ (Top(stack) # Gate /\ Top(stack) # Gold)

FilterDefinition(s, line) ==
    IF HasTimescale(line)
    THEN [s EXCEPT !.filtered_lines = Append(@, line)]
    ELSE IF line.kind = "var"
    THEN IF line.name = Okay
         THEN [s EXCEPT !.filtered_lines = Append(@, line)]
         ELSE IF RemovedWire(s.current_module, line.name)
         THEN [s EXCEPT !.wires_to_remove = Append(@, line.id)]
         ELSE [s EXCEPT !.filtered_lines =
                   Append(@, VcdLine("var", line.id,
                                     Top(s.current_module) \o <<".">>
                                         \o line.name))]
    ELSE IF line.kind = "scope"
    THEN [s EXCEPT !.current_module = Append(@, line.name),
                   !.filtered_lines = Append(@, line)]
    ELSE IF line.kind = "upscope"
    THEN [s EXCEPT !.current_module =
                       IF @ # <<>> THEN SubSeq(@, 1, Len(@) - 1) ELSE @,
                   !.filtered_lines = Append(@, line)]
    ELSE IF line.kind = "enddefinitions"
    THEN [s EXCEPT !.pc = "changes", !.filtered_lines = Append(@, line)]
    ELSE s

FilterChange(s, line) ==
    IF line.kind = "timestamp"
    THEN [s EXCEPT !.filtered_lines = Append(@, line)]
    ELSE IF line.kind = "change" /\ ~InList(line.id, s.wires_to_remove)
    THEN [s EXCEPT !.filtered_lines = Append(@, line)]
    ELSE s

DeclaredIds(s) == {s.lines[i].id : i \in {j \in DOMAIN s.lines :
                                              s.lines[j].kind = "var"}}

\* The waveforms read: wire ids appear in the order of WireIds, and an id
\* already declared may be declared again (the same signal seen from
\* another scope); a module scope is not opened inside a scope of the same
\* name.
DefinitionLines(s) ==
    {TimescaleLine, UpscopeLine, EndDefinitionsLine}
    \cup {VcdLine("scope", "", m) :
              m \in {n \in CleanScopes : ~InList(n, s.current_module)}}
    \cup {VcdLine("var", WireIds[i], name) :
              i \in {j \in DOMAIN WireIds :
                         j <= Cardinality(DeclaredIds(s)) + 1},
              name \in CleanNames}

ChangeLines == {TimestampLine} \cup {VcdLine("change", id, <<>>) :
                                         id \in WireIdSet}

InnermostOpen(s) ==
    IF s.current_module = <<>> THEN <<>> ELSE Top(s.current_module)

InitClean ==
    /\ NoRun
    /\ proc = NoCall
    /\ ifaces = NoCall
    /\ traits = NoCall
    /\ wave = NoCall
    /\ clean = NewClean

CleanDefinitionLine ==
    /\ clean.pc = "definitions"
    /\ Len(clean.lines) < MaxCleanLines
    /\ \E line \in DefinitionLines(clean) :
           clean' = [FilterDefinition(clean, line) EXCEPT
                        !.lines = Append(@, line),
                        !.scopes = Append(@, InnermostOpen(clean))]
    /\ UNCHANGED pipeline
    /\ UNCHANGED <<proc, ifaces, traits, wave>>

CleanChangeLine ==
    /\ clean.pc = "changes"
    /\ Len(clean.lines) < MaxCleanLines
    /\ \E line \in ChangeLines :
           clean' = [FilterChange(clean, line) EXCEPT
                        !.lines = Append(@, line),
                        !.scopes = Append(@, <<>>)]
    /\ UNCHANGED pipeline
    /\ UNCHANGED <<proc, ifaces, traits, wave>>

WriteClean ==
    /\ clean.pc \in {"definitions", "changes"}
    /\ clean' = [clean EXCEPT !.pc = "written"]
    /\ UNCHANGED pipeline
    /\ UNCHANGED <<proc, ifaces, traits, wave>>

NextClean ==
    \/ CleanDefinitionLine
    \/ CleanChangeLine
    \/ WriteClean

SpecClean == InitClean /\ [][NextClean]_vars

-----------------------------------------------------------------------------
(* Properties of the run *)

Happened(e) == \E i \in 1..Len(events) : events[i] = e

Before(e, f) ==
    \E i \in 1..Len(events), j \in 1..Len(events) :
        i < j /\ events[i] = e /\ events[j] = f

Times(e) == Cardinality({i \in 1..Len(events) : events[i] = e})

Writes == {"write:dummy", "write:synthesis", "write:final"}

Launches == {"launch:yosys_solution", "launch:yosys_synthesis",
             "launch:yosys_parser", "launch:diff", "launch:eqy"}

Finished == pc \in {"main", "exited"}

(* the run got as far as the staged pipeline (inf.cor exists) *)
Entered == veredict # "unset"

(* the last line of the report holding either phrase holds the success one *)
LastDecidingIsSuccess(report) ==
    \E i \in 1..Len(report) :
        /\ report[i] = "succ"
        /\ \A j \in (i + 1)..Len(report) : report[j] = "other"

(* C1, as stated: whenever the synthesizer left an empty error stream, the *)
(* interface diff returned 0 and the equivalence report contains the       *)
(* success phrase, the finalizer's record has veredict AC and no trace     *)
(* files (stated here for the runs in which no stage raised).              *)
C1_AcceptIfReportContainsSuccess ==
    ( /\ Finished
      /\ obs.raisedIn = "none"
      /\ obs.synthErr = "empty"
      /\ obs.diffStatus = 0
      /\ \E i \in 1..Len(obs.eqyReport) : obs.eqyReport[i] = "succ" )
    => disk = RecordOf("AC", <<>>)

(* C1, amended: whenever the synthesizer left an empty error stream, the   *)
(* interface diff returned 0, the equivalence checker terminated within    *)
(* its timeout and the last line of its report that holds either phrase    *)
(* holds the success phrase, the finalizer's record has veredict AC and no *)
(* trace files.                                                            *)
C1_AcceptEndToEnd ==
    ( /\ Finished
      /\ obs.synthErr = "empty"
      /\ obs.diffStatus = 0
      /\ obs.eqyRun = "exited"
      /\ LastDecidingIsSuccess(obs.eqyReport) )
    => ( /\ disk = RecordOf("AC", <<>>)
         /\ Times("write:final") = 1 )

C1_Witness ==
    /\ pc = "exited"
    /\ obs.synthErr = "empty"
    /\ obs.diffStatus = 0
    /\ obs.eqyReport = <<"fail", "succ">>
    /\ disk.veredict = "AC"

(* C2: whenever synthesis succeeded and the interface diff returned 1, the *)
(* equivalence stage is never started and the final record has veredict CE *)
(* and exactly one trace file, the interface-diff artifact.                *)
C2_InterfaceMismatch ==
    obs.diffStatus = 1
    => ( /\ ~Happened("start:verification")
         /\ ~Happened("launch:eqy")
         /\ Finished =>
              disk = RecordOf("CE", <<Path("correction/interface.diff")>>) )

C2_Witness ==
    /\ pc = "exited"
    /\ obs.synthErr = "empty"
    /\ obs.diffStatus = 1
    /\ Len(disk.trace_files) = 1

(* C3: whenever the equivalence checker ran into its timeout, statistics   *)
(* collection is invoked after the kill and the final record has veredict  *)
(* EE.                                                                     *)
C3_TimeoutGivesEE ==
    (pc = "exited" /\ obs.eqyRun = "timeout")
    => ( /\ Before("kill", "start:statistics")
         /\ disk.veredict = "EE" )

(* C4: whenever the synthesizer terminated leaving a non-empty error       *)
(* stream, the verdict is CE, no later stage (interface, equivalence,      *)
(* statistics) runs, and the run ends with trace_files holding exactly the *)
(* synthesis-error artifact.                                               *)
C4_SynthesisErrorStream ==
    obs.synthErr = "nonempty"
    => ( /\ veredict = "CE"
         /\ ~Happened("start:interface")
         /\ ~Happened("start:verification")
         /\ ~Happened("start:statistics")
         /\ Finished =>
              /\ trace_files = <<Path("correction/compilation1.txt")>>
              /\ disk = RecordOf("CE", trace_files) )

C4_Witness ==
    /\ pc = "exited"
    /\ obs.synthErr = "nonempty"
    /\ Len(trace_files) = 1

(* C5: whenever the synthesizer returned a non-zero exit status, the       *)
(* verdict is CE and no stage after synthesis is started, also when its    *)
(* error stream is empty.                                                  *)
C5_SynthesisExitStatus ==
    (obs.synthRun = "exited" /\ obs.synthRc # 0)
    => ( /\ veredict = "CE"
         /\ ~Happened("start:interface") )

(* C6: whenever the synthesizer ran into its timeout, the condition does   *)
(* not reach the pipeline's outer handler and the final record is not IE.  *)
C6_SynthesisTimeoutResolved ==
    obs.synthRun = "timeout"
    => ( /\ pc # "except"
         /\ ~Happened("handler")
         /\ Finished => disk.veredict # "IE" )

(* C7: whenever a stage has raised a condition it does not handle, the     *)
(* finalizer's record has veredict IE, whatever verdict was in memory when *)
(* it was raised, and the process exits non-zero.                          *)
C7_UnhandledGivesIE ==
    obs.raisedIn # "none"
    => ( /\ Finished => (disk.veredict = "IE" /\ Times("write:final") = 1)
         /\ pc = "exited" => exitCode # 0 )

C7_Witness ==
    /\ pc = "exited"
    /\ obs.raisedIn = "verification"
    /\ obs.verdictAtRaise = "WA"

(* C8: the first thing a run does is write a record with veredict IE, so   *)
(* before any external tool is launched; and a run that entered the staged *)
(* pipeline has, once judge0 is left, written the record by the finalizer  *)
(* exactly once, as the last write, and the record on disk is the one in   *)
(* memory; before that the finalizer has not written.                      *)
C8_RecordLifecycle ==
    /\ events # <<>> => events[1] = "write:dummy"
    /\ Len(events) = 1 => disk.veredict = "IE"
    /\ ~Finished => ~Happened("write:final")
    /\ (Finished /\ Entered) =>
         /\ Times("write:final") = 1
         /\ \A i \in 1..Len(events) :
              events[i] = "write:final" =>
                \A j \in (i + 1)..Len(events) : events[j] \notin Writes
         /\ disk = RecordOf(veredict, trace_files)

C8_Witness ==
    /\ pc = "exited"
    /\ obs.raisedIn = "move_trace_files"
    /\ Happened("launch:eqy")
    /\ Times("write:final") = 1

(* C9: from the defensive write until the finalizer writes, the verdict on *)
(* disk is IE, or CE when the synthesizer left a non-empty error stream;   *)
(* it is never AC, WA or EE.                                               *)
C9_NoStaleVerdictOnDisk ==
    (pc # "start" /\ ~Happened("write:final"))
    => \/ disk.veredict = "IE"
       \/ disk.veredict = "CE" /\ obs.synthErr = "nonempty"

C9_Witness ==
    /\ pc = "finally"
    /\ veredict = "AC"
    /\ disk.veredict = "IE"
    /\ Happened("write:synthesis")

(* C10: a run in which every stage it started (synthesis, interface check, *)
(* equivalence verification, statistics) returned with a verdict resolved  *)
(* exits with code 0; and a run that exits non-zero leaves IE on disk.     *)
C10_ExitCode ==
    pc = "exited"
    => ( /\ (Entered /\ obs.raisedIn \notin {"synthesis", "interface", "verification"})
              => exitCode = 0
         /\ exitCode # 0 => disk.veredict = "IE" )

-----------------------------------------------------------------------------
StageStarts == {"start:synthesis", "start:interface", "start:verification",
                "start:statistics"}

StageOrder == <<"start:synthesis", "start:interface", "start:verification",
                "start:statistics">>

IsStageStart(e) == e \in StageStarts

StagesStarted == SelectSeq(events, IsStageStart)

(* synthesis succeeded: the synthesizer exited with status 0 and left an   *)
(* empty error stream                                                      *)
SynthesisSucceeded ==
    /\ obs.synthRun = "exited"
    /\ obs.synthRc = 0
    /\ obs.synthErr = "empty"

(* C11: the stages started so far are, in order, a prefix of synthesis,    *)
(* interface check, equivalence verification, statistics (so none starts   *)
(* twice); the interface check has started only if synthesis succeeded,    *)
(* and equivalence verification only if the interface diff returned 0.     *)
C11_StageOrdering ==
    /\ Len(StagesStarted) <= Len(StageOrder)
    /\ StagesStarted = SubSeq(StageOrder, 1, Len(StagesStarted))
    /\ Happened("start:interface") => SynthesisSucceeded
    /\ Happened("start:verification") => obs.diffStatus = 0

C13_ScriptKeptUnlessAccepted ==
    (Finished /\ Happened("launch:eqy") /\ disk.veredict # "AC")
    => eqyScript

(* C14: a run whose equivalence report says equivalence failed sets the    *)
(* verdict WA, runs the waveform parser on every counterexample waveform   *)
(* found and, by its end, has left no .svg or .json artifact in            *)
(* correction/traces/: each one was moved and recorded in trace_files.     *)
C14_WrongAnswerArtifacts ==
    (Finished /\ obs.eqyResult = "False")
    => /\ obs.vcdParsed = obs.vcdFound
       /\ svgs = 0 /\ jsons = 0
       /\ obs.raisedIn = "none" => disk.veredict = "WA"

-----------------------------------------------------------------------------
(* The violations C19 lists, stated on the port mapping *)

Present(ports, n) == n \in DOMAIN ports

ClockResetViolation(ports) ==
    \/ Present(ports, CLK_PORT_NAME) /\ ~Present(ports, RST_PORT_NAME)
    \/ Present(ports, RST_PORT_NAME) /\ ~Present(ports, CLK_PORT_NAME)
    \/ \E n \in {CLK_PORT_NAME, RST_PORT_NAME} :
          Present(ports, n) /\ (ports[n].dir = "output" \/ ports[n].width > 1)

DontCareViolation(ports) ==
    /\ Present(ports, DONTCARE_PORT_NAME)
    /\ (ports[DONTCARE_PORT_NAME].dir = "input"
        \/ ports[DONTCARE_PORT_NAME].width > 1)

PerSignalDontCareViolation(ports) ==
    \E x \in {SignalX} :
        /\ Present(ports, DONTCARE_PREFIX \o x)
        /\ \/ ~(ports[DONTCARE_PREFIX \o x].dir = "output"
                /\ ports[DONTCARE_PREFIX \o x].width = 1)
           \/ ~Present(ports, x)
           \/ ports[x].dir # "output"

ListedViolation(ports) ==
    \/ ClockResetViolation(ports)
    \/ DontCareViolation(ports)
    \/ PerSignalDontCareViolation(ports)

(* C19: detect_circuit_traits raises on every interface with one of the    *)
(* listed violations (clk without rst or rst without clk; clk or rst an    *)
(* output or wider than one bit; '_DontCare' an input or wider than one    *)
(* bit; a '_DontCare_<X>' port that is not a single-bit output, or whose X *)
(* names no port or a port that is not an output), and when it returns     *)
(* none of them holds and the traits tell what the interface has.          *)
C19_TraitsRejectViolations ==
    traits.pc = "done"
    => /\ ListedViolation(traits.ports) => traits.result.exc = "Exception"
       /\ traits.result.exc = "none" =>
            /\ ~ListedViolation(traits.ports)
            /\ traits.result.sequential = Present(traits.ports, CLK_PORT_NAME)
            /\ traits.result.dont_care = Present(traits.ports, DONTCARE_PORT_NAME)
            /\ traits.result.dont_cares =
                 {x \in {SignalX} : Present(traits.ports, DONTCARE_PREFIX \o x)}

C19_Witness ==
    /\ traits.pc = "done"
    /\ Present(traits.ports, CLK_PORT_NAME)
    /\ Present(traits.ports, RST_PORT_NAME)
    /\ traits.ports[RST_PORT_NAME].width > 1
    /\ ~Present(traits.ports, DONTCARE_PORT_NAME)
    /\ ~Present(traits.ports, DONTCARE_PREFIX \o SignalX)
    /\ traits.result.exc = "Exception"

(* C20: a run whose loaded reference interface violates a trait invariant  *)
(* starts no stage and ends with none of the verdicts AC, WA, CE, EE.      *)
C20_TraitsValidatedAtLoad ==
    obs.refTraits = "violated"
    => /\ ~Happened("start:synthesis")
       /\ Finished => disk.veredict \notin {"AC", "WA", "CE", "EE"}

-----------------------------------------------------------------------------
(* the ports an Interface lists, as (name, direction, width) *)
ListedPorts(i) == i.inputs \o i.outputs

PortSet(i) ==
    {PortLine(ListedPorts(i)[n]) : n \in 1..Len(ListedPorts(i))}

(* how many of the ports i lists have the attributes l *)
Listed(i, l) ==
    Cardinality({n \in 1..Len(ListedPorts(i)) : PortLine(ListedPorts(i)[n]) = l})

SamePorts(i, j) ==
    /\ PortSet(i) = PortSet(j)
    /\ \A l \in PortSet(i) : Listed(i, l) = Listed(j, l)

InputsThenOutputsSorted(text) ==
    \A m, n \in 1..Len(text.lines) :
        m < n =>
            /\ ~(text.lines[m].dir = "output" /\ text.lines[n].dir = "input")
            /\ text.lines[m].dir = text.lines[n].dir
               => ~StrLess(text.lines[n].name, text.lines[m].name)

(* C17: a serialized interface has its header, then its inputs, then its   *)
(* outputs, each block sorted by port name; two interfaces of the same     *)
(* name whose port sets (name, direction, width) are identical, whatever   *)
(* the order of the add_port calls that built them, have identical texts.  *)
C17_CanonicalSerialization ==
    (ifaces.pc = "build" /\ ifaces.text.A # NoText /\ ifaces.text.B # NoText)
    => /\ InputsThenOutputsSorted(ifaces.text.A)
       /\ ifaces.text.A.header = ifaces.A.name
       /\ (ifaces.A.name = ifaces.B.name /\ SamePorts(ifaces.A, ifaces.B))
          => ifaces.text.A = ifaces.text.B

(* C18: after any sequence of add_port and del_port calls every port name  *)
(* occurs at most once across inputs and outputs, and the ports listed     *)
(* there are exactly the Port objects of the name-to-Port mapping.         *)
C18_InterfaceUniqueness ==
    ifaces.pc = "build"
    => \A k \in {"A", "B"} :
         LET all == ListedPorts(ifaces[k])
         IN  /\ \A m, n \in 1..Len(all) : m # n => all[m].name # all[n].name
             /\ {all[n] : n \in 1..Len(all)}
                = {ifaces[k].ports[nm] : nm \in DOMAIN ifaces[k].ports}

-----------------------------------------------------------------------------
RunnerDone == proc.pc \in {"returned", "raised"}

(* the tick at which the timeout has elapsed *)
TimeoutTick == proc.timeout * PollsPerSecond * TicksPerPoll

(* C15: a call whose process terminates before the timeout has elapsed     *)
(* ends by returning that process's exit code, without a kill, at the      *)
(* first poll after the termination (less than one poll interval later).   *)
C15_EarlyExit ==
    (RunnerDone /\ proc.end < TimeoutTick)
    => /\ proc.pc = "returned"
       /\ proc.result = [exc |-> "none", rc |-> proc.rc]
       /\ ~proc.killed
       /\ proc.end <= proc.now
       /\ proc.now - proc.end < TicksPerPoll

C16_Outcomes ==
    /\ proc.polls <= PollsPerSecond * proc.timeout + 1
    /\ proc.launches = IF proc.pc = "call" THEN 0 ELSE 1
    /\ proc.pc = "returned" =>
         /\ ~proc.killed
         /\ proc.result = [exc |-> "none", rc |-> proc.rc]
         /\ proc.end <= proc.now
    /\ proc.killed =>
         /\ proc.pc = "raised"
         /\ ~LeTimeout(proc.c, proc.timeout)
    /\ proc.pc = "raised" =>
         /\ proc.killed
         /\ proc.result = [exc |-> "TimeoutException", rc |-> -1]

(* C16: every call ends, after at most 5 * timeout + 1 polls, either by    *)
(* returning the exit code of a process it observed terminated or by       *)
(* killing the process and raising the timed-out condition; it kills only  *)
(* once the accumulated c exceeds the timeout, never returns normally      *)
(* after a kill and launches the process once.                             *)
C16_TimeoutAndTermination == []C16_Outcomes /\ <>RunnerDone

C16_Witness ==
    /\ proc.pc = "raised"
    /\ proc.timeout = 1
    /\ proc.polls = PollsPerSecond + 1
    /\ proc.killed
    /\ proc.end > TimeoutTick

-----------------------------------------------------------------------------
(* C29: in every state of a run, in memory or on disk, the verdict AC      *)
(* implies that the synthesizer left an empty error stream, the interface  *)
(* diff returned 0, and the equivalence checker terminated within its      *)
(* timeout with a report whose last deciding line holds the success        *)
(* phrase.                                                                 *)
C29_AcceptanceIsSound ==
    (veredict = "AC" \/ disk.veredict = "AC")
    => /\ obs.synthRun = "exited" /\ obs.synthErr = "empty"
       /\ obs.parserRun = "exited" /\ obs.diffStatus = 0
       /\ obs.eqyRun = "exited"
       /\ LastDecidingIsSuccess(obs.eqyReport)
       /\ Before("launch:diff", "launch:eqy")

C29_Witness ==
    /\ pc = "exited"
    /\ disk.veredict = "AC"
    /\ obs.eqyReport = <<"succ", "other">>

(* the lines of a report that hold either phrase *)
Deciding(report) == {i \in 1..Len(report) : report[i] # "other"}

LastDeciding(report) ==
    CHOOSE i \in Deciding(report) : \A j \in Deciding(report) : j <= i

(* C30: when the equivalence checker terminated, execute_verifier's result *)
(* is that of the last line of the report holding either phrase: true for  *)
(* the success phrase, false for the failure phrase; with no such line the *)
(* result is not true, and the verdict verification() assigns is WA.       *)
C30_DecisionFromReport ==
    obs.eqyRun = "exited"
    => /\ Deciding(obs.eqyReport) # {} =>
            LET line == obs.eqyReport[LastDeciding(obs.eqyReport)]
            IN  /\ line = "succ" => obs.eqyResult = "True"
                /\ line = "fail" => obs.eqyResult = "False"
       /\ Deciding(obs.eqyReport) = {} =>
            /\ obs.eqyResult = "None"
            /\ IF obs.raisedIn = "verification"
               THEN obs.verdictAtRaise = "WA"
               ELSE pc \in {"statistics", "traces"} => veredict = "WA"
            /\ disk.veredict # "AC"

C30_Witness ==
    /\ pc = "exited"
    /\ obs.eqyRun = "exited"
    /\ obs.eqyReport = <<"other", "other">>
    /\ obs.raisedIn = "none"
    /\ disk.veredict = "WA"

-----------------------------------------------------------------------------
(* Properties of generate_json_from_vcd *)

Markers == Len(wave.timestamps)

Untrimmed(wire_number) == Get(wave.signal_values, wire_number)

Declared == Keys(wave.signal_values)

(* C26: during the value-change phase the value sequence of every declared *)
(* wire is as long as the number of timestamp markers read so far.         *)
C26_LockstepLengths ==
    wave.pc = "changes"
    => \A w \in Declared : Len(Untrimmed(w)) = Markers

(* C21: index i (from 0) of a declared wire's untrimmed sequence holds the  *)
(* value of the last change record for that wire read before the marker    *)
(* that follows marker i, or before the end of the stream when no marker   *)
(* follows, and -1 when there is no such record; the sequence has an entry *)
(* for every marker read.                                                  *)
C21_DenseTrace ==
    \A w \in Declared :
        /\ Len(Untrimmed(w)) >= Markers
        /\ \A j \in 1..Len(Untrimmed(w)) :
               Untrimmed(w)[j] = IF j < Markers THEN wave.atMarker[w][j + 1]
                                 ELSE wave.last[w]

C21_Witness ==
    /\ wave.pc = "changes"
    /\ Declared = {"n1", "n2"}
    /\ Untrimmed("n1") = <<0, 0, 2>>
    /\ Untrimmed("n2") = <<-1, 2, 2>>

BoundTo(wires, name) == {w \in Keys(wires) : Get(wires, w) = name}

TrimmedOf(wires, entry) ==
    \E w \in BoundTo(wires, entry.k) :
        entry.v = SubSeq(Untrimmed(w), 1, Len(Untrimmed(w)) - 1)

Returned == wave.pc = "returned"

Entries ==
    {wave.result.input[i] : i \in DOMAIN wave.result.input}
    \cup {wave.result.output[i] : i \in DOMAIN wave.result.output}
    \cup {wave.result.expected[i] : i \in DOMAIN wave.result.expected}

(* C22: once a marker has been read every declared wire has one entry per  *)
(* marker; the traces of a returned result are those sequences without     *)
(* their last entry (a combinational result, which keeps only the first    *)
(* entry of a trace, needs two markers for a bound wire).                  *)
C22_FinalValueTrimming ==
    Markers >= 1
    => /\ \A w \in Declared : Len(Untrimmed(w)) = Markers
       /\ (Returned /\ wave.result.type = "sequential")
          => /\ \A i \in DOMAIN wave.result.input :
                    /\ Len(wave.result.input[i].v) = Markers - 1
                    /\ TrimmedOf(wave.input_wires, wave.result.input[i])
             /\ \A i \in DOMAIN wave.result.output :
                    /\ Len(wave.result.output[i].v) = Markers - 1
                    /\ TrimmedOf(wave.output_gate_wires, wave.result.output[i])
             /\ \A i \in DOMAIN wave.result.expected :
                    /\ Len(wave.result.expected[i].v) = Markers - 1
                    /\ TrimmedOf(wave.output_gold_wires,
                                 wave.result.expected[i])
       /\ (Returned /\ wave.result.type = "combinational" /\ Entries # {})
          => Markers >= 2

C22_Witness ==
    /\ Returned
    /\ Markers = 2
    /\ wave.result.type = "sequential"
    /\ wave.result.input = <<[k |-> "clk", v |-> <<2>>]>>
    /\ Untrimmed("n1") = <<2, 2>>

(* C23: no result is returned when two wires declared in the same scope    *)
(* (gold, or gate) are bound to the same output name.                      *)
C23_UnambiguousBinding ==
    Returned
    => \A name \in WireNames :
           /\ Cardinality(BoundTo(wave.output_gold_wires, name)) <= 1
           /\ Cardinality(BoundTo(wave.output_gate_wires, name)) <= 1

Innermost(stack) == IF stack = <<>> THEN "none" ELSE Top(stack)

BindsAs(wires, id, name) == id \in Keys(wires) /\ Get(wires, id) = name

OthersKept(before, after, id) ==
    /\ Keys(after) \ {id} = Keys(before) \ {id}
    /\ \A w \in Keys(before) \ {id} : Get(after, w) = Get(before, w)

VarStep ==
    LET id    == wave'.line.id
        name  == wave'.line.name
        inner == Innermost(wave.current_module)
        isIn  == InList(name, wave.input_names)
        isOut == ~isIn /\ InList(name, wave.output_names)
    IN  /\ wave'.current_module = wave.current_module
        /\ BindsAs(wave'.input_wires, id, name)
               <=> (inner \in {"gold", "gate"} /\ isIn)
        /\ BindsAs(wave'.output_gold_wires, id, name)
               <=> (inner = "gold" /\ isOut)
        /\ BindsAs(wave'.output_gate_wires, id, name)
               <=> (inner = "gate" /\ isOut)
        /\ id \in Keys(wave'.input_wires) => BindsAs(wave'.input_wires, id, name)
        /\ id \in Keys(wave'.output_gold_wires)
               => BindsAs(wave'.output_gold_wires, id, name)
        /\ id \in Keys(wave'.output_gate_wires)
               => BindsAs(wave'.output_gate_wires, id, name)
        /\ OthersKept(wave.input_wires, wave'.input_wires, id)
        /\ OthersKept(wave.output_gold_wires, wave'.output_gold_wires, id)
        /\ OthersKept(wave.output_gate_wires, wave'.output_gate_wires, id)

ScopeStep ==
    /\ wave'.line.kind = "scope"
           => wave'.current_module
                  = Append(wave.current_module, wave'.line.module)
    /\ wave'.line.kind = "upscope"
           => wave'.current_module
                  = IF wave.current_module = <<>> THEN <<>>
                    ELSE SubSeq(wave.current_module, 1,
                                Len(wave.current_module) - 1)
    /\ wave'.line.kind # "var"
           => /\ wave'.input_wires = wave.input_wires
              /\ wave'.output_gold_wires = wave.output_gold_wires
              /\ wave'.output_gate_wires = wave.output_gate_wires

LineStep ==
    wave'.pc \in {"definitions", "changes"}
    => /\ ScopeStep
       /\ wave'.line.kind = "var" => VarStep

NamesOf(wires) == {wires[i].v : i \in DOMAIN wires}

OnlyBound ==
    Returned
    => /\ Keys(wave.result.input) \subseteq NamesOf(wave.input_wires)
       /\ Keys(wave.result.output) \subseteq NamesOf(wave.output_gate_wires)
       /\ Keys(wave.result.expected) \subseteq NamesOf(wave.output_gold_wires)

(* C27: reading a wire declaration binds the wire only when the innermost   *)
(* open scope is gold or gate: as input when its name is among the inputs, *)
(* otherwise as gold or gate output, by the scope, when its name is among  *)
(* the outputs; scope pushes, upscope pops (nothing on an empty stack);    *)
(* the result holds only names of bound wires.                             *)
C27_BindingClassification == []OnlyBound /\ [][LineStep]_vars

C27_Witness ==
    /\ wave.pc = "definitions"
    /\ wave.current_module = <<"gold", "top">>
    /\ wave.line = [kind |-> "var", id |-> "n2", name |-> "y"]
    /\ wave.output_gold_wires = <<[k |-> "n1", v |-> "y"]>>
    /\ wave.output_gate_wires = <<>>

Trimmed(w) == SubSeq(Untrimmed(w), 1, Len(Untrimmed(w)) - 1)

FirstOf(wires, entry) ==
    \E w \in BoundTo(wires, entry.k) :
        Len(Trimmed(w)) >= 1 /\ entry.v = Trimmed(w)[1]

WholeOf(wires, entry) ==
    \E w \in BoundTo(wires, entry.k) : entry.v = Trimmed(w)

EntriesFrom(values, wires, sequential) ==
    /\ Keys(values) = NamesOf(wires)
    /\ \A i \in DOMAIN values :
           IF sequential THEN WholeOf(wires, values[i])
           ELSE FirstOf(wires, values[i])

(* C25: a returned result is sequential exactly when a wire is bound to    *)
(* the input clk, and combinational otherwise; a combinational result      *)
(* gives for every bound name the first element of the trimmed trace, a    *)
(* sequential one the whole trimmed trace.                                 *)
C25_CollapseByType ==
    Returned
    => LET sequential == "clk" \in NamesOf(wave.input_wires)
       IN  /\ wave.result.type
                  = IF sequential THEN "sequential" ELSE "combinational"
           /\ EntriesFrom(wave.result.input, wave.input_wires, sequential)
           /\ EntriesFrom(wave.result.output, wave.output_gate_wires,
                          sequential)
           /\ EntriesFrom(wave.result.expected, wave.output_gold_wires,
                          sequential)

C25_Witness ==
    /\ Returned
    /\ wave.result.type = "combinational"
    /\ wave.result.input = <<[k |-> "a", v |-> 0]>>
    /\ wave.result.expected = <<[k |-> "y", v |-> -1]>>
    /\ Untrimmed("n1") = <<0, 2, 2>>
    /\ Untrimmed("n2") = <<-1, 0, 0>>

Unambiguous(wires) ==
    \A name \in NamesOf(wires) : Cardinality(BoundTo(wires, name)) = 1

WireOf(wires, name) == CHOOSE w \in Keys(wires) : Get(wires, w) = name

GoldGateDiffer(name) ==
    \/ name \notin NamesOf(wave.output_gate_wires)
    \/ Trimmed(WireOf(wave.output_gold_wires, name))
           # Trimmed(WireOf(wave.output_gate_wires, name))

(* C24: in a returned result, with every output name bound by one wire per *)
(* scope, the errors are exactly the gold outputs whose trace differs from *)
(* the gate trace of the same name at some timestamp of the result (or has *)
(* no gate trace).                                                         *)
C24_ErrorSet ==
    (/\ Returned
     /\ Unambiguous(wave.output_gold_wires)
     /\ Unambiguous(wave.output_gate_wires))
    => \A name \in WireNames :
           InList(name, wave.result.errors)
               <=> /\ name \in NamesOf(wave.output_gold_wires)
                   /\ GoldGateDiffer(name)

-----------------------------------------------------------------------------
(* Properties of generate_clean_vcd *)

KeptDeclaration(id) ==
    \E j \in DOMAIN clean.filtered_lines :
        clean.filtered_lines[j].kind = "var" /\ clean.filtered_lines[j].id = id

KeptChange(id) ==
    \E j \in DOMAIN clean.filtered_lines :
        /\ clean.filtered_lines[j].kind = "change"
        /\ clean.filtered_lines[j].id = id

\* the declaration read as line i is in the copy, as it was or with its
\* name rewritten to scope.name
KeptLine(i) ==
    \E j \in DOMAIN clean.filtered_lines :
        /\ clean.filtered_lines[j].kind = "var"
        /\ clean.filtered_lines[j].id = clean.lines[i].id
        /\ clean.filtered_lines[j].name
               \in {clean.lines[i].name,
                    clean.scopes[i] \o <<".">> \o clean.lines[i].name}

ToKeep(name, scope) ==
    \/ name = Okay
    \/ /\ scope \in {Gold, Gate}
       /\ ~StartsWith(name, InternalPrefix)
       /\ ~StartsWith(name, DONTCARE_PREFIX)

IsStructural(line) ==
    line.kind \in {"timestamp", "scope", "upscope", "timescale",
                   "enddefinitions"}

(* C28: of the lines read so far, a wire declaration is in the clean copy  *)
(* iff the wire is named okay, or its innermost scope is gold or gate and  *)
(* its name starts with neither '__' nor '_DontCare_'; no change record of *)
(* a wire whose declaration was dropped is in the copy; the timestamp,     *)
(* scope, upscope, timescale and end-of-definitions lines are all there.   *)
C28_CleanCopyFilter ==
    /\ \A i \in DOMAIN clean.lines :
           clean.lines[i].kind = "var"
           => /\ KeptLine(i) <=> ToKeep(clean.lines[i].name, clean.scopes[i])
              /\ ~KeptLine(i) => ~KeptChange(clean.lines[i].id)
    /\ SelectSeq(clean.filtered_lines, IsStructural)
           = SelectSeq(clean.lines, IsStructural)

-----------------------------------------------------------------------------
(* Properties of the working directory and of retained wires *)

(* C31: once execute_verifier has finished, with a result or with the      *)
(* runner's timeout, the working directory is the run directory again.     *)
C31_WorkingDirectoryPreserved ==
    obs.eqyRun \in {"exited", "timeout"} => cwd = "run"

ChangesOf(lines, id) ==
    SelectSeq(lines, LAMBDA l : l.kind = "change" /\ l.id = id)

(* C32: for every wire id declared in the waveform, if a declaration of it *)
(* is in the clean copy then every change record read for it is in the     *)
(* copy, and otherwise the copy holds no change record of it.              *)
C32_RetainedWiresWhole ==
    \A id \in DeclaredIds(clean) :
        IF KeptDeclaration(id)
        THEN ChangesOf(clean.filtered_lines, id) = ChangesOf(clean.lines, id)
        ELSE ~KeptChange(id)

=============================================================================
